---- MODULE Spec2Model ----
(***************************************************************************)
(* Model of server/src/services/typescriptService/preprocess.ts: the       *)
(* wrappers createUpdater() puts around the TypeScript language service's  *)
(* createLanguageServiceSourceFile / updateLanguageServiceSourceFile.      *)
(*                                                                         *)
(* Source files are heap objects (files[id]); the WeakMap scriptKindTracker*)
(* and the WeakSet modificationTracker are keyed by object id; the         *)
(* process-wide templateSourceMap is keyed by file name.  File names and   *)
(* template texts are sequences of one-character strings so that extname,  *)
(* slice and the regular-expression replacements are computed as the code  *)
(* computes them.  Node ranges are 0-based [pos, end) offsets; a node made *)
(* by a ts.create* factory has pos = end = -1 until setTextRange is called.*)
(***************************************************************************)
EXTENDS Integers, Sequences, FiniteSets, TLC

VARIABLES
  files,                \* heap: files[id] is the ts.SourceFile object id
  scriptKindTracker,    \* WeakMap<SourceFile, ScriptKind | undefined>
  modificationTracker,  \* WeakSet<SourceFile>
  templateSourceMap,    \* fileName -> source map nodes (serviceHost.ts)
  current,              \* the object the last call returned to the host, 0 if none
  env,                  \* the file the host works on in this behaviour
  call,                 \* what the most recent call did
  rewrites              \* history: number of modifyVueScript applications per object

vars == <<files, scriptKindTracker, modificationTracker, templateSourceMap,
          current, env, call, rewrites>>

----------------------------------------------------------------------------
(* Bounds of the model.                                                    *)

\* number of SourceFile objects a behaviour may allocate
MaxFiles == 3
\* length of the template region's text after the opening tag
MaxTplLen == 2

----------------------------------------------------------------------------
(* Strings as character sequences.                                         *)

DotVue == <<".", "v", "u", "e">>
DotTemplate == <<".", "t", "e", "m", "p", "l", "a", "t", "e">>
DotTs == <<".", "t", "s">>
OpenTag == <<"<", "t", "e", "m", "p", "l", "a", "t", "e", ">">>
CloseTag == <<"<", "/", "t", "e", "m", "p", "l", "a", "t", "e", ">">>
TenSpaces == <<" ", " ", " ", " ", " ", " ", " ", " ", " ", " ">>
BridgeModule == <<"v", "u", "e", "-", "e", "d", "i", "t", "o", "r", "-", "b", "r", "i", "d", "g", "e">>

Max(S) == CHOOSE x \in S : \A y \in S : y <= x
Min(S) == CHOOSE x \in S : \A y \in S : x <= y

\* String.prototype.lastIndexOf, 1-based; 0 when c does not occur
LastIndexOf(s, c) == Max({0} \cup {i \in 1..Len(s) : s[i] = c})

\* String.prototype.endsWith
EndsWith(s, suffix) ==
  /\ Len(suffix) <= Len(s)
  /\ SubSeq(s, Len(s) - Len(suffix) + 1, Len(s)) = suffix

\* s.slice(0, -n)
SliceOff(s, n) == IF Len(s) <= n THEN <<>> ELSE SubSeq(s, 1, Len(s) - n)

\* path.basename(p)
basename(p) == SubSeq(p, LastIndexOf(p, "/") + 1, Len(p))

\* path.extname(p): from the last '.' of the basename, '' when there is none
\* or when it is the basename's first character
extname(p) ==
  LET b == basename(p)
      d == LastIndexOf(b, ".")
  IN IF d <= 1 THEN <<>> ELSE SubSeq(b, d, Len(b))

isVue(filename) == extname(filename) = DotVue

\* util.ts: the virtual template file of x.vue is named x.vue.template
isVirtualVueTemplateFile(fileName) == EndsWith(fileName, DotVue \o DotTemplate)

----------------------------------------------------------------------------
(* Syntax trees.  Every node has pos and end; factories leave them at -1.  *)

\* the helper names imported from ./transformTemplate
renderHelperName == "renderHelperName"
componentHelperName == "componentHelperName"
iterationHelperName == "iterationHelperName"
listenerHelperName == "listenerHelperName"

\* tsModule.setTextRange(node, range)
setTextRange(node, range) == [node EXCEPT !.pos = range.pos, !.end = range.end]

\* the range of a NodeArray (CallExpression.arguments) is kept in argsPos/argsEnd
setArgumentsRange(callNode, range) ==
  [callNode EXCEPT !.argsPos = range.pos, !.argsEnd = range.end]

MkExpr(kind, text, callee, args, body) ==
  [kind |-> kind, pos |-> -1, end |-> -1, text |-> text, callee |-> callee,
   args |-> args, argsPos |-> -1, argsEnd |-> -1, body |-> body]

createIdentifier(text) == MkExpr("Identifier", text, <<>>, <<>>, <<>>)
createCall(expression, argumentsArray) ==
  MkExpr("CallExpression", "", <<expression>>, argumentsArray, <<>>)
\* createFunctionExpression(..., createBlock(statements))
createFunctionExpression(statements) ==
  MkExpr("FunctionExpression", "", <<>>, <<>>, statements)

createImportClause(name, namedBindings) ==
  [name |-> name, named |-> namedBindings, pos |-> -1, end |-> -1]
createLiteral(text) == [text |-> text, pos |-> -1, end |-> -1]

MkStmt(kind, clause, module, expr) ==
  [kind |-> kind, pos |-> -1, end |-> -1, clause |-> clause, module |-> module,
   expr |-> expr]

createImportDeclaration(importClause, moduleSpecifier) ==
  MkStmt("ImportDeclaration", <<importClause>>, <<moduleSpecifier>>, <<>>)
createStatement(exp) == MkStmt("ExpressionStatement", <<>>, <<>>, <<exp>>)

----------------------------------------------------------------------------
(* The host's parser (TypeScript, external).  A script text is a sequence  *)
(* of statement words; the parser lays the nodes out one after another.    *)

StmtWords == {"imp", "expObj", "expId"}

WordLen(w) ==
  CASE w = "imp" -> 9 [] w = "expObj" -> 18 [] w = "expId" -> 19 [] OTHER -> 4

Ranged(node, p, e) == setTextRange(node, [pos |-> p, end |-> e])

ParseWord(w, p) ==
  CASE w = "imp" ->
         Ranged(MkStmt("ImportDeclaration",
                       <<Ranged(createImportClause(<<"x">>, <<>>), p + 6, p + 8)>>,
                       <<Ranged(createLiteral(<<"y">>), p + 8, p + 9)>>, <<>>),
                p, p + 9)
    [] w = "expObj" ->
         Ranged(MkStmt("ExportAssignment", <<>>, <<>>,
                       <<Ranged(MkExpr("ObjectLiteralExpression", "{}", <<>>, <<>>, <<>>),
                                p + 14, p + 17)>>),
                p, p + 18)
    [] w = "expId" ->
         Ranged(MkStmt("ExportAssignment", <<>>, <<>>,
                       <<Ranged(createIdentifier("foo"), p + 14, p + 18)>>),
                p, p + 19)
    [] OTHER ->
         Ranged(MkStmt("ExpressionStatement", <<>>, <<>>,
                       <<Ranged(createIdentifier("foo"), p, p + 3)>>),
                p, p + 4)

RECURSIVE ParseFrom(_, _)
ParseFrom(words, p) ==
  IF words = <<>> THEN <<>>
  ELSE <<ParseWord(Head(words), p)>> \o ParseFrom(Tail(words), p + WordLen(Head(words)))

\* the statement list the host's parser builds from a script text
HostParse(words) == ParseFrom(words, 0)

----------------------------------------------------------------------------
(* modifyVueScript and getWrapperRangeSetter.                              *)

\* getWrapperRangeSetter(tsModule, wrapped)(wrapperNode)
getWrapperRangeSetter(wrapped, wrapperNode) == setTextRange(wrapperNode, wrapped)

\* sourceFile.statements.find(...): index of the first default export of an
\* object literal, 0 when there is none
exportDefaultObject(statements) ==
  LET hits == {i \in 1..Len(statements) :
                 /\ statements[i].kind = "ExportAssignment"
                 /\ statements[i].expr[1].kind = "ObjectLiteralExpression"}
  IN IF hits = {} THEN 0 ELSE Min(hits)

ZeroPos == [pos |-> 0, end |-> 0]

\* a variant that gives the import the range of the text it would print as
vueImport_Wide ==
  setTextRange(
    createImportDeclaration(
      getWrapperRangeSetter(ZeroPos, createImportClause(<<"__vueEditorBridge">>, <<>>)),
      getWrapperRangeSetter(ZeroPos, createLiteral(BridgeModule))),
    [pos |-> 0, end |-> 10])

vueImport ==
  getWrapperRangeSetter(ZeroPos,
    createImportDeclaration(
      getWrapperRangeSetter(ZeroPos, createImportClause(<<"__vueEditorBridge">>, <<>>)),
      getWrapperRangeSetter(ZeroPos, createLiteral(BridgeModule))))

\* a variant that leaves the argument list without a range
wrapObjectLiteral_ArgsUnranged(objectLiteral) ==
  LET vue == setTextRange(createIdentifier("__vueEditorBridge"),
                          [pos |-> objectLiteral.pos, end |-> objectLiteral.pos + 1])
  IN getWrapperRangeSetter(objectLiteral, createCall(vue, <<objectLiteral>>))

\* the wrapped export expression: __vueEditorBridge(objectLiteral)
wrapObjectLiteral(objectLiteral) ==
  LET vue == setTextRange(createIdentifier("__vueEditorBridge"),
                          [pos |-> objectLiteral.pos, end |-> objectLiteral.pos + 1])
      wrapped == getWrapperRangeSetter(objectLiteral, createCall(vue, <<objectLiteral>>))
  IN setArgumentsRange(wrapped, objectLiteral)

\* a variant that inserts the import whether or not a default export of an
\* object literal was found
modifyVueScript_AlwaysImport(statements) ==
  LET idx == exportDefaultObject(statements) IN
  <<vueImport>> \o
  [i \in 1..Len(statements) |->
     IF i = idx
     THEN [statements[i] EXCEPT !.expr = <<wrapObjectLiteral(statements[i].expr[1])>>]
     ELSE statements[i]]

\* modifyVueScript(tsModule, sourceFile): the new sourceFile.statements
modifyVueScript(statements) ==
  LET idx == exportDefaultObject(statements) IN
  IF idx = 0 THEN statements
  ELSE <<vueImport>> \o
       [i \in 1..Len(statements) |->
          IF i = idx
          THEN [statements[i] EXCEPT !.expr = <<wrapObjectLiteral(statements[i].expr[1])>>]
          ELSE statements[i]]

----------------------------------------------------------------------------
(* Snapshots.  A snapshot's text is read in two ways: by the host's parser *)
(* (its statement words) and by the region splitter (the template region). *)
(* Template characters: " " is white space, "x" a construct the transform  *)
(* visitor turns into one expression, "?" a construct on which the visitor *)
(* throws, "!" markup on which the markup parser throws.                   *)

TplChars == {"x", "?", "!"}

RECURSIVE SeqsUpTo(_, _)
SeqsUpTo(S, n) ==
  IF n = 0 THEN {<<>>}
  ELSE LET shorter == SeqsUpTo(S, n - 1)
       IN shorter \cup {Append(q, c) : q \in {r \in shorter : Len(r) = n - 1}, c \in S}

\* getVueDocumentRegions(doc).getSingleTypeDocument('template'): the other
\* regions and the opening tag are blanked out, the template's text follows
getSingleTypeDocumentTemplate(snapshot) ==
  [languageId |-> snapshot.lang, text |-> TenSpaces \o snapshot.tpl]

\* rawText.replace(/\s/g, '')
RemoveWhitespace(s) == SelectSeq(s, LAMBDA c : c # " ")

\* rawText.replace(/ {10}/, '<template>'): the first run of ten spaces
ReplaceTenSpaces(s) ==
  LET hits == {i \in 1..(Len(s) - 9) : SubSeq(s, i, i + 9) = TenSpaces} IN
  IF hits = {} THEN s
  ELSE LET i == Min(hits)
       IN SubSeq(s, 1, i - 1) \o OpenTag \o SubSeq(s, i + 10, Len(s))

parseVueTemplate(snapshot) ==
  LET template == getSingleTypeDocumentTemplate(snapshot)
      rawText == template.text
  IN IF template.languageId # "vue-html" THEN <<>>
     ELSE IF RemoveWhitespace(rawText) = <<>> THEN <<>>
     ELSE ReplaceTenSpaces(rawText) \o CloseTag

\* vue-eslint-parser's parse(templateCode): throws on malformed markup,
\* otherwise the constructs of the template body with their offsets
parse(templateCode) ==
  [threw |-> \E i \in 1..Len(templateCode) : templateCode[i] = "!",
   templateBody |->
     SelectSeq([i \in 1..Len(templateCode) |-> [c |-> templateCode[i], offset |-> i - 1]],
               LAMBDA n : n.c \in {"x", "?"})]

\* getTemplateTransformFunctions(tsModule).transformTemplate(program, code):
\* one expression per construct, ranged at the construct; throws at the
\* first "?" construct, after having produced the expressions before it
transformTemplate(program) ==
  LET body == program.templateBody
      bad == {i \in 1..Len(body) : body[i].c = "?"}
      n == IF bad = {} THEN Len(body) ELSE Min(bad) - 1
  IN [threw |-> bad # {},
      produced |->
        [i \in 1..n |-> setTextRange(createIdentifier("x"),
                                     [pos |-> body[i].offset, end |-> body[i].offset + 1])]]

----------------------------------------------------------------------------
(* injectVueTemplate.                                                      *)

\* './' + path.basename(sourceFile.fileName.slice(0, -9))
vueFilePath(fileName) == <<".", "/">> \o basename(SliceOff(fileName, 9))

componentImport(fileName) ==
  createImportDeclaration(createImportClause(<<"__Component">>, <<>>),
                          createLiteral(vueFilePath(fileName)))

helperImport ==
  createImportDeclaration(
    createImportClause(<<>>, <<renderHelperName, componentHelperName,
                               iterationHelperName, listenerHelperName>>),
    createLiteral(BridgeModule))

\* a variant that wraps the expressions last to first
renderElement_Reversed(renderBlock) ==
  createStatement(
    createCall(createIdentifier(renderHelperName),
               <<createIdentifier("__Component"),
                 createFunctionExpression(
                   [i \in 1..Len(renderBlock) |->
                      createStatement(renderBlock[Len(renderBlock) + 1 - i])])>>))

renderElement(renderBlock) ==
  createStatement(
    createCall(createIdentifier(renderHelperName),
               <<createIdentifier("__Component"),
                 createFunctionExpression(
                   [i \in 1..Len(renderBlock) |-> createStatement(renderBlock[i])])>>))

\* injectVueTemplate(tsModule, sourceFile, renderBlock): the source file's
\* new statements and externalModuleIndicator
injectVueTemplate(sourceFile, renderBlock) ==
  [sourceFile EXCEPT
     !.statements = <<componentImport(sourceFile.fileName), helperImport,
                      renderElement(renderBlock)>>,
     !.externalModuleIndicator = <<componentImport(sourceFile.fileName)>>]

----------------------------------------------------------------------------
(* printer.printFile and tsModule.createSourceFile.  The printed text      *)
(* holds the syntax and none of the node ranges; the parser gives every    *)
(* node the range its text has in the printed file.                        *)

NoRange == [pos |-> -1, end |-> -1]

RECURSIVE PrintExpr(_), PrintStmt(_)
PrintExpr(e) ==
  [setArgumentsRange(setTextRange(e, NoRange), NoRange) EXCEPT
     !.callee = [i \in 1..Len(e.callee) |-> PrintExpr(e.callee[i])],
     !.args = [i \in 1..Len(e.args) |-> PrintExpr(e.args[i])],
     !.body = [i \in 1..Len(e.body) |-> PrintStmt(e.body[i])]]
PrintStmt(s) ==
  [setTextRange(s, NoRange) EXCEPT
     !.clause = [i \in 1..Len(s.clause) |-> setTextRange(s.clause[i], NoRange)],
     !.module = [i \in 1..Len(s.module) |-> setTextRange(s.module[i], NoRange)],
     !.expr = [i \in 1..Len(s.expr) |-> PrintExpr(s.expr[i])]]

\* printer.printFile(sourceFile)
printFile(sourceFile) ==
  [i \in 1..Len(sourceFile.statements) |-> PrintStmt(sourceFile.statements[i])]

EndOf(nodes, p) == IF nodes = <<>> THEN p ELSE nodes[Len(nodes)].end

RECURSIVE LayoutExpr(_, _), LayoutExprs(_, _), LayoutStmt(_, _), LayoutStmts(_, _)
LayoutExpr(e, p) ==
  CASE e.kind = "CallExpression" ->
         LET c == LayoutExpr(e.callee[1], p)
             as == LayoutExprs(e.args, c.end + 1)
             ae == EndOf(as, c.end + 1)
         IN [e EXCEPT !.pos = p, !.end = ae + 1, !.callee = <<c>>, !.args = as,
                      !.argsPos = c.end + 1, !.argsEnd = ae]
    [] e.kind = "FunctionExpression" ->
         LET b == LayoutStmts(e.body, p + 11)
         IN [e EXCEPT !.pos = p, !.end = EndOf(b, p + 11) + 1, !.body = b]
    [] e.kind = "ObjectLiteralExpression" -> Ranged(e, p, p + 2)
    [] OTHER -> Ranged(e, p, p + 1)
LayoutExprs(es, p) ==
  IF es = <<>> THEN <<>>
  ELSE LET h == LayoutExpr(Head(es), p) IN <<h>> \o LayoutExprs(Tail(es), h.end + 1)
LayoutStmt(s, p) ==
  CASE s.kind = "ImportDeclaration" ->
         [s EXCEPT !.pos = p, !.end = p + 10,
                   !.clause = <<Ranged(s.clause[1], p + 6, p + 8)>>,
                   !.module = <<Ranged(s.module[1], p + 8, p + 9)>>]
    [] s.kind = "ExportAssignment" ->
         LET x == LayoutExpr(s.expr[1], p + 14)
         IN [s EXCEPT !.pos = p, !.end = x.end + 1, !.expr = <<x>>]
    [] OTHER ->
         LET x == LayoutExpr(s.expr[1], p)
         IN [s EXCEPT !.pos = p, !.end = x.end + 1, !.expr = <<x>>]
LayoutStmts(ss, p) ==
  IF ss = <<>> THEN <<>>
  ELSE LET h == LayoutStmt(Head(ss), p) IN <<h>> \o LayoutStmts(Tail(ss), h.end)

\* the first import or export statement, as the parser records it
ModuleIndicator(statements) ==
  LET hits == {i \in 1..Len(statements) :
                 statements[i].kind \in {"ImportDeclaration", "ExportAssignment"}}
  IN IF hits = {} THEN <<>> ELSE <<statements[Min(hits)]>>

\* tsModule.createSourceFile(fileName, newText, languageVersion, true, JS)
createSourceFile(fileName, newText, languageVersion) ==
  LET statements == LayoutStmts(newText, 0) IN
  [fileName |-> fileName, statements |-> statements,
   languageVersion |-> languageVersion,
   externalModuleIndicator |-> ModuleIndicator(statements)]

----------------------------------------------------------------------------
(* generateSourceMap (sourceMap.ts): the synthetic tree and the re-parsed  *)
(* tree are walked in lockstep; a synthetic node that has a range yields   *)
(* one entry from that range to the range of its re-parsed counterpart.    *)

MapNode(synthetic, valid) ==
  IF synthetic.pos >= 0 /\ synthetic.end >= 0
  THEN <<[from |-> <<synthetic.pos, synthetic.end>>, to |-> <<valid.pos, valid.end>>]>>
  ELSE <<>>

RECURSIVE walkExprs(_, _, _), walkStmts(_, _, _)
walkExprs(ss, vs, i) ==
  IF Len(ss) # Len(vs) \/ i > Len(ss) THEN <<>>
  ELSE MapNode(ss[i], vs[i])
       \o walkExprs(ss[i].callee \o ss[i].args, vs[i].callee \o vs[i].args, 1)
       \o walkStmts(ss[i].body, vs[i].body, 1)
       \o walkExprs(ss, vs, i + 1)
walkStmts(ss, vs, i) ==
  IF Len(ss) # Len(vs) \/ i > Len(ss) THEN <<>>
  ELSE MapNode(ss[i], vs[i])
       \o (IF Len(ss[i].clause) = Len(vs[i].clause) /\ ss[i].clause # <<>>
           THEN MapNode(ss[i].clause[1], vs[i].clause[1])
                \o MapNode(ss[i].module[1], vs[i].module[1])
           ELSE <<>>)
       \o walkExprs(ss[i].expr, vs[i].expr, 1)
       \o walkStmts(ss, vs, i + 1)

generateSourceMap(sourceFile, newSourceFile) ==
  walkStmts(sourceFile.statements, newSourceFile.statements, 1)

----------------------------------------------------------------------------
(* createUpdater: the closure's state and its functions.  A store st holds *)
(* the heap and the three tables; each function maps a store to the store  *)
(* it leaves behind.                                                       *)

\* ts.ScriptKind values a caller may pass; "undefined" is the omitted argument
ScriptKinds == {"undefined", "JS", "TS", "TSX"}

\* a variant that forgets ScriptKind.TSX
isTSLike_OnlyTS(scriptKind) == scriptKind = "TS"

isTSLike(scriptKind) == scriptKind = "TS" \/ scriptKind = "TSX"

NewId(st) == Len(st.files) + 1

\* the ts.SourceFile the host's parser returns
createSourceFileFromHost(fileName, statements, scriptTarget) ==
  [fileName |-> fileName, statements |-> statements,
   languageVersion |-> scriptTarget,
   externalModuleIndicator |-> ModuleIndicator(statements)]

\* clssf: the host's createLanguageServiceSourceFile
clssf(fileName, scriptSnapshot, scriptTarget) ==
  createSourceFileFromHost(fileName, HostParse(scriptSnapshot.script), scriptTarget)

\* ulssf: the host's updateLanguageServiceSourceFile returns the object it
\* was given when it finds nothing to re-parse, and a new object parsed from
\* the snapshot otherwise
ulssf(st, sourceFile, scriptSnapshot, same) ==
  IF same THEN [st |-> st, id |-> sourceFile]
  ELSE [st |-> [st EXCEPT
                  !.files = Append(@, clssf(st.files[sourceFile].fileName, scriptSnapshot,
                                            st.files[sourceFile].languageVersion)),
                  !.rewrites = Append(@, 0)],
        id |-> NewId(st)]

\* a variant that rewrites without adding the object to modificationTracker
modifySourceFile_NoAdd(st, fileName, sourceFile, scriptKind) ==
  IF sourceFile \in st.modificationTracker THEN st
  ELSE IF isVue(fileName) /\ ~isTSLike(scriptKind)
  THEN [st EXCEPT
          !.files[sourceFile].statements = modifyVueScript(@),
          !.rewrites[sourceFile] = @ + 1]
  ELSE st

\* a variant that rewrites files of any extension
modifySourceFile_AnyFile(st, fileName, sourceFile, scriptKind) ==
  IF sourceFile \in st.modificationTracker THEN st
  ELSE IF ~isTSLike(scriptKind)
  THEN [st EXCEPT
          !.files[sourceFile].statements = modifyVueScript(@),
          !.rewrites[sourceFile] = @ + 1,
          !.modificationTracker = @ \cup {sourceFile}]
  ELSE st

\* a variant that does not consult modificationTracker
modifySourceFile_NoCheck(st, fileName, sourceFile, scriptKind) ==
  IF isVue(fileName) /\ ~isTSLike(scriptKind)
  THEN [st EXCEPT
          !.files[sourceFile].statements = modifyVueScript(@),
          !.rewrites[sourceFile] = @ + 1,
          !.modificationTracker = @ \cup {sourceFile}]
  ELSE st

modifySourceFile(st, fileName, sourceFile, scriptKind) ==
  IF sourceFile \in st.modificationTracker THEN st
  ELSE IF isVue(fileName) /\ ~isTSLike(scriptKind)
  THEN [st EXCEPT
          !.files[sourceFile].statements = modifyVueScript(@),
          !.rewrites[sourceFile] = @ + 1,
          !.modificationTracker = @ \cup {sourceFile}]
  ELSE st

\* a variant that stores the map under the virtual file's own name only
storeSourceMap_NoAlias(map, vueTemplateFileName, sourceMapNodes) ==
  (vueTemplateFileName :> sourceMapNodes) @@ map

\* templateSourceMap[vueTemplateFileName] = sourceMapNodes;
\* templateSourceMap[vueTemplateFileName.slice(0, -'.template'.length)] = sourceMapNodes
storeSourceMap(map, vueTemplateFileName, sourceMapNodes) ==
  (SliceOff(vueTemplateFileName, Len(DotTemplate)) :> sourceMapNodes)
    @@ (vueTemplateFileName :> sourceMapNodes) @@ map

\* lines 108-112: the map is built and stored, the new source file returned
storeAndReturn(st, vueTemplateFileName, sourceFile, transformThrew, injected, newSourceFile) ==
  [st |-> [st EXCEPT
             !.files = Append([@ EXCEPT ![sourceFile] = injected], newSourceFile),
             !.rewrites = Append(@, 0),
             !.templateSourceMap =
                storeSourceMap(@, vueTemplateFileName,
                               generateSourceMap(injected, newSourceFile))],
   threw |-> FALSE, transformThrew |-> transformThrew, result |-> NewId(st)]

\* lines 98-106: the source file is printed and the text parsed again
printAndReparse(st, vueTemplateFileName, sourceFile, transformThrew, injected) ==
  storeAndReturn(st, vueTemplateFileName, sourceFile, transformThrew, injected,
                 createSourceFile(vueTemplateFileName, printFile(injected),
                                  injected.languageVersion))

\* lines 89-96: the expressions are injected unless the visitor threw
transformAndInject(st, vueTemplateFileName, sourceFile, transformed) ==
  printAndReparse(st, vueTemplateFileName, sourceFile, transformed.threw,
                  IF transformed.threw THEN st.files[sourceFile]
                  ELSE injectVueTemplate(st.files[sourceFile], transformed.produced))

\* line 87 and what follows it: nothing after parse() runs when it throws
parseAndTransform(st, vueTemplateFileName, sourceFile, program) ==
  IF program.threw
  THEN [st |-> st, threw |-> TRUE, transformThrew |-> FALSE, result |-> 0]
  ELSE transformAndInject(st, vueTemplateFileName, sourceFile, transformTemplate(program))

\* recreateVueTempalteSourceFile: threw when parse() threw; otherwise result
\* is the re-parsed source file's id
recreateVueTempalteSourceFile(st, vueTemplateFileName, sourceFile, scriptSnapshot) ==
  parseAndTransform(st, vueTemplateFileName, sourceFile,
                    parse(parseVueTemplate(scriptSnapshot)))

\* a variant that forgets to mark the re-parsed source file
markModified_Forgotten(st, sourceFile) == st

\* modificationTracker.add(sourceFile)
markModified(st, sourceFile) ==
  [st EXCEPT !.modificationTracker = @ \cup {sourceFile}]

\* lines 126-127 / 144-145: the re-created source file is marked
markRecreated(r) ==
  IF r.threw THEN r ELSE [r EXCEPT !.st = markModified(r.st, r.result)]

\* the branch both lifecycle functions end with; host is the object the
\* host returned, usedKind the script kind the branch was given
route(st, fileName, sourceFile, scriptSnapshot, scriptKind) ==
  [host |-> sourceFile, usedKind |-> scriptKind] @@
  (IF isVirtualVueTemplateFile(fileName)
   THEN markRecreated(recreateVueTempalteSourceFile(st, fileName, sourceFile,
                                                    scriptSnapshot))
   ELSE [st |-> modifySourceFile(st, fileName, sourceFile, scriptKind),
         threw |-> FALSE, transformThrew |-> FALSE, result |-> sourceFile])

createLanguageServiceSourceFile(st, fileName, scriptSnapshot, scriptTarget, scriptKind) ==
  route([st EXCEPT
           !.files = Append(@, clssf(fileName, scriptSnapshot, scriptTarget)),
           !.rewrites = Append(@, 0),
           !.scriptKindTracker = (NewId(st) :> scriptKind) @@ @],
        fileName, NewId(st), scriptSnapshot, scriptKind)

\* scriptKindTracker.get(sourceFile)
trackedKind(st, sourceFile) ==
  IF sourceFile \in DOMAIN st.scriptKindTracker
  THEN st.scriptKindTracker[sourceFile] ELSE "undefined"

\* lines 143-148, on the object u.id the host's update returned
routeUpdated(u, scriptSnapshot, scriptKind) ==
  route(u.st, u.st.files[u.id].fileName, u.id, scriptSnapshot, scriptKind)

updateLanguageServiceSourceFile(st, sourceFile, scriptSnapshot, same) ==
  routeUpdated(ulssf(st, sourceFile, scriptSnapshot, same), scriptSnapshot,
               trackedKind(st, sourceFile))

----------------------------------------------------------------------------
(* The state machine: the host calls the two functions, one call at a time.*)

FileNames ==
  {<<"a">> \o DotVue,
   <<"d", "/", "a">> \o DotVue \o DotTemplate,
   <<"b">> \o DotTs}

ScriptTargets == {"ES5"}

\* what a behaviour's host works on: one file, opened with one script kind
\* (the script kind only matters to the routing of .vue files)
Envs ==
  {e \in [fileName : FileNames, scriptKind : ScriptKinds, scriptTarget : ScriptTargets] :
     isVue(e.fileName) \/ e.scriptKind \in {"JS", "TS"}}

\* script texts the host supplies in the lifecycle
LifecycleScripts ==
  {<<"expObj">>, <<"imp", "expObj">>, <<"expObj", "expObj">>, <<"expId">>,
   <<"imp", "expId">>}
Templates == SeqsUpTo(TplChars, MaxTplLen)

\* the snapshots the host supplies for a file: for a virtual template file
\* the component's text with its template varied (among them a template of
\* white space only and one that is not vue-html), for any other file the
\* script text varied
Snapshots(fileName) ==
  IF isVirtualVueTemplateFile(fileName)
  THEN {[script |-> <<"expObj">>, lang |-> "vue-html", tpl |-> t] : t \in Templates}
         \cup {[script |-> <<"expObj">>, lang |-> "pug", tpl |-> <<"x">>],
               [script |-> <<"expObj">>, lang |-> "vue-html", tpl |-> <<" ", " ">>]}
  ELSE {[script |-> w, lang |-> "vue-html", tpl |-> <<"x">>] : w \in LifecycleScripts}

NoSnapshot == [script |-> <<>>, lang |-> "vue-html", tpl |-> <<>>]

Store ==
  [files |-> files, rewrites |-> rewrites, scriptKindTracker |-> scriptKindTracker,
   modificationTracker |-> modificationTracker, templateSourceMap |-> templateSourceMap]

Init ==
  /\ env \in Envs
  /\ files = <<>>
  /\ rewrites = <<>>
  /\ scriptKindTracker = [id \in {} |-> "undefined"]
  /\ modificationTracker = {}
  /\ templateSourceMap = [f \in {} |-> <<>>]
  /\ current = 0
  /\ call = [op |-> "none", snapshot |-> NoSnapshot, usedKind |-> "undefined",
             target |-> 0, same |-> FALSE, host |-> 0, result |-> 0,
             threw |-> FALSE, transformThrew |-> FALSE]

\* the number of objects a call allocates: the host's, unless it returns the
\* one it was given, and the re-parsed one of a virtual template file
Allocates(scriptSnapshot, same) ==
  (IF same THEN 0 ELSE 1)
    + (IF isVirtualVueTemplateFile(env.fileName)
          /\ ~parse(parseVueTemplate(scriptSnapshot)).threw
       THEN 1 ELSE 0)

\* the state a call that did r leaves behind
Commit(r, op, scriptSnapshot, target, same) ==
  /\ files' = r.st.files
  /\ rewrites' = r.st.rewrites
  /\ scriptKindTracker' = r.st.scriptKindTracker
  /\ modificationTracker' = r.st.modificationTracker
  /\ templateSourceMap' = r.st.templateSourceMap
  /\ current' = IF r.threw THEN current ELSE r.result
  /\ call' = [op |-> op, snapshot |-> scriptSnapshot, usedKind |-> r.usedKind,
              target |-> target, same |-> same, host |-> r.host,
              result |-> r.result, threw |-> r.threw,
              transformThrew |-> r.transformThrew]
  /\ UNCHANGED env

\* the host asks for a new source file of the file it works on
Create ==
  \E scriptSnapshot \in Snapshots(env.fileName) :
    /\ Len(files) + Allocates(scriptSnapshot, FALSE) <= MaxFiles
    /\ Commit(createLanguageServiceSourceFile(Store, env.fileName, scriptSnapshot,
                                              env.scriptTarget, env.scriptKind),
              "create", scriptSnapshot, 0, FALSE)

\* the host updates the source file it holds, the one the previous call returned
Update ==
  \E scriptSnapshot \in Snapshots(env.fileName), same \in BOOLEAN :
    /\ current # 0
    /\ Len(files) + Allocates(scriptSnapshot, same) <= MaxFiles
    /\ Commit(updateLanguageServiceSourceFile(Store, current, scriptSnapshot, same),
              "update", scriptSnapshot, current, same)

Next == Create \/ Update

Spec == Init /\ [][Next]_vars

----------------------------------------------------------------------------
(* Properties.                                                             *)

IsTemplateCall == call.op # "none" /\ isVirtualVueTemplateFile(env.fileName)

\* the name without the '.template' suffix
Alias(fileName) == SliceOff(fileName, Len(DotTemplate))

IsBridgeImport(s) ==
  s.kind = "ImportDeclaration" /\ s.clause[1].name = <<"__vueEditorBridge">>
IsBridgeCall(e) ==
  e.kind = "CallExpression" /\ e.callee[1].text = "__vueEditorBridge"
BridgeImports(statements) ==
  Cardinality({i \in 1..Len(statements) : IsBridgeImport(statements[i])})

\* the statement list is [component import, helper import, render-helper call]
IsInjected(fileName, statements) ==
  /\ Len(statements) = 3
  /\ PrintStmt(statements[1]) = PrintStmt(componentImport(fileName))
  /\ PrintStmt(statements[2]) = PrintStmt(helperImport)
  /\ statements[3].kind = "ExpressionStatement"
  /\ statements[3].expr[1].kind = "CallExpression"
  /\ statements[3].expr[1].callee[1].text = renderHelperName
  /\ Len(statements[3].expr[1].args) = 2
  /\ statements[3].expr[1].args[2].kind = "FunctionExpression"

\* the statements of the render helper's function body
RenderBody(statements) == statements[3].expr[1].args[2].body

\* what the transform visitor does with the last call's snapshot
Transformed == transformTemplate(parse(parseVueTemplate(call.snapshot)))

\* the map this call's derivation builds: from the tree that was printed
\* and the tree that was parsed back
DerivedMap == generateSourceMap(files[call.host], files[call.result])

EmptyStore ==
  [files |-> <<>>, rewrites |-> <<>>,
   scriptKindTracker |-> [id \in {} |-> "undefined"],
   modificationTracker |-> {}, templateSourceMap |-> [f \in {} |-> <<>>]]

\* a create with the last call's snapshot in a process that did nothing before
FreshCreate ==
  createLanguageServiceSourceFile(EmptyStore, env.fileName, call.snapshot,
                                  env.scriptTarget, env.scriptKind)

\* the last call produced the document and the position map that r produced
SameOutcome(r) ==
  /\ files[call.result].statements = r.st.files[r.result].statements
  /\ templateSourceMap[env.fileName] = r.st.templateSourceMap[env.fileName]

(* C1, as stated: an update whose host step returns the same, already      *)
(* marked object D leaves D's statement list as it was, for script         *)
(* documents and template-synthetic documents alike.                       *)
C1_IdempotentAnyDocument ==
  [][(call'.op = "update" /\ call'.same /\ call'.target \in modificationTracker)
       => files'[call'.target].statements = files[call'.target].statements]_vars

(* C1, amended: the same for every document that is not a virtual template *)
(* file; a marked template-synthetic document is injected again.           *)
C1_IdempotentScriptDocument ==
  [][(/\ call'.op = "update"
      /\ call'.same
      /\ call'.target \in modificationTracker
      /\ ~isVirtualVueTemplateFile(env.fileName))
       => files'[call'.target].statements = files[call'.target].statements]_vars

\* a rewritten, marked component script went through an update in which the
\* host returned that same object, and it was marked before the call
C1_Witness ==
  /\ call.op = "update" /\ call.same
  /\ isVue(env.fileName) /\ ~isTSLike(env.scriptKind)
  /\ call.target \in modificationTracker
  /\ call.snapshot.script = <<"expId">>
  /\ BridgeImports(files[call.target].statements) = 1

(* C2: the script kind an update uses for its routing decision is the kind *)
(* that was passed to the create the updated document descends from.       *)
C2_KindRecovered ==
  call.op = "update" => call.usedKind = env.scriptKind

(* C3: modifyVueScript is applied to an object at most once: no document   *)
(* holds more than one __vueEditorBridge import, and no default export is  *)
(* wrapped in a bridge call inside a bridge call.                          *)
C3_RewrittenAtMostOnce ==
  \A id \in 1..Len(files) :
    /\ rewrites[id] <= 1
    /\ BridgeImports(files[id].statements) <= 1
    /\ \A i \in 1..Len(files[id].statements) :
         LET st == files[id].statements[i] IN
         (st.kind = "ExportAssignment" /\ IsBridgeCall(st.expr[1]))
           => ~IsBridgeCall(st.expr[1].args[1])

\* an object with two default-export object literals was rewritten and then
\* came back from the host's update as the same object
C3_Witness ==
  /\ call.op = "update" /\ call.same
  /\ rewrites[call.target] = 1
  /\ Len(files[call.target].statements) = 3
  /\ BridgeImports(files[call.target].statements) = 1
  /\ files[call.target].statements[3].expr[1].kind = "ObjectLiteralExpression"

(* C4: no create or update of a virtual template file propagates a failure *)
(* of the markup parser or of the transform visitor.                       *)
C4_NeverThrows ==
  IsTemplateCall => ~call.threw

(* C5: when the transform visitor fails after producing k expressions, the *)
(* returned document is the injected [component import, helper import,     *)
(* render-helper call] whose function body holds exactly k statements.     *)
C5_PartialBodyKept ==
  (IsTemplateCall /\ call.transformThrew) =>
    /\ IsInjected(env.fileName, files[call.result].statements)
    /\ Len(RenderBody(files[call.result].statements)) = Len(Transformed.produced)

(* C6: when the transform visitor throws, the call still returns a freshly *)
(* re-parsed document, which is marked processed, and both position-map    *)
(* entries of the identity hold this derivation's map.                     *)
C6_TransformFailureContained ==
  (IsTemplateCall /\ call.transformThrew) =>
    /\ ~call.threw
    /\ call.result = current
    /\ call.result # call.host
    /\ call.result # call.target
    /\ files[call.result] =
         createSourceFile(env.fileName, printFile(files[call.host]),
                          files[call.host].languageVersion)
    /\ call.result \in modificationTracker
    /\ env.fileName \in DOMAIN templateSourceMap
    /\ Alias(env.fileName) \in DOMAIN templateSourceMap
    /\ templateSourceMap[env.fileName] = DerivedMap
    /\ templateSourceMap[Alias(env.fileName)] = DerivedMap

\* the visitor threw during an update, after one expression of two
C6_Witness ==
  /\ IsTemplateCall /\ call.op = "update" /\ call.transformThrew
  /\ call.snapshot.tpl = <<"x", "?">>

(* C7: for every virtual template file that has a position map, the map    *)
(* under its name and the map under the name without '.template' are equal.*)
C7_AliasConsistent ==
  \A F \in FileNames :
    (isVirtualVueTemplateFile(F) /\ F \in DOMAIN templateSourceMap) =>
      /\ Alias(F) \in DOMAIN templateSourceMap
      /\ templateSourceMap[Alias(F)] = templateSourceMap[F]

\* a template of two constructs was derived: its two-entry map is stored
\* under both names
C7_Witness ==
  /\ IsTemplateCall /\ ~call.threw /\ ~call.transformThrew
  /\ call.snapshot.tpl = <<"x", "x">>
  /\ Alias(env.fileName) \in DOMAIN templateSourceMap
  /\ Len(templateSourceMap[env.fileName]) = 2

(* C8: every create or update of a virtual template file leaves both       *)
(* position-map entries equal to the map built from this call's (printed   *)
(* tree, re-parsed tree) pair; nothing of an earlier map survives.         *)
C8_MapReplacedByEveryCall ==
  IsTemplateCall =>
    /\ call.result # 0
    /\ env.fileName \in DOMAIN templateSourceMap
    /\ Alias(env.fileName) \in DOMAIN templateSourceMap
    /\ templateSourceMap[env.fileName] = DerivedMap
    /\ templateSourceMap[Alias(env.fileName)] = DerivedMap

(* C9: the document and the position map a create or update of a virtual   *)
(* template file produces are those of a fresh create with the same        *)
(* snapshot, whatever happened before and also when the visitor fails.     *)
C9_HistoryIndependent ==
  (IsTemplateCall /\ ~call.threw) => SameOutcome(FreshCreate)

(* C10, as stated: every create of a .vue file runs the script rewriter on *)
(* the document and marks it, whatever script kind is passed.              *)
C10_VueAlwaysRewritten ==
  (call.op = "create" /\ isVue(env.fileName)) =>
    /\ rewrites[call.result] = 1
    /\ call.result \in modificationTracker
    /\ files[call.result].statements = modifyVueScript(HostParse(call.snapshot.script))

(* C10, amended: every create of a .vue file whose script kind is neither  *)
(* TS nor TSX runs the script rewriter on the document and marks it; with  *)
(* TS or TSX the document is the host's, not rewritten and not marked.     *)
C10_VueRewrittenUnlessTS ==
  (call.op = "create" /\ isVue(env.fileName)) =>
    IF env.scriptKind \in {"TS", "TSX"}
    THEN /\ rewrites[call.result] = 0
         /\ call.result \notin modificationTracker
         /\ files[call.result].statements = HostParse(call.snapshot.script)
    ELSE /\ rewrites[call.result] = 1
         /\ call.result \in modificationTracker
         /\ files[call.result].statements
              = modifyVueScript(HostParse(call.snapshot.script))

\* a .vue file created with ScriptKind.JS came back with its export wrapped
C10_Witness ==
  /\ call.op = "create" /\ isVue(env.fileName) /\ env.scriptKind = "JS"
  /\ call.snapshot.script = <<"imp", "expObj">>
  /\ IsBridgeImport(files[call.result].statements[1])
  /\ IsBridgeCall(files[call.result].statements[3].expr[1])

\* the last call ran the script rewriter on the object the host had just
\* parsed from the call's snapshot
RewriterRan ==
  /\ call.op # "none" /\ ~call.same
  /\ ~isVirtualVueTemplateFile(env.fileName)
  /\ rewrites[call.result] = 1

\* the statement list the host parsed from the last call's snapshot
Original == HostParse(call.snapshot.script)

C12_EmptyTemplateNoBody ==
  (IsTemplateCall /\ ~call.threw /\ parseVueTemplate(call.snapshot) = <<>>) =>
    /\ files[call.result].statements = <<>>
    /\ ~IsInjected(env.fileName, files[call.result].statements)

(* C13: after injectVueTemplate with expressions e_1..e_n the document's   *)
(* statement list is exactly [component import, helper import,             *)
(* render-helper call], whatever it held before, and the render helper's   *)
(* function body holds n statements, the i-th wrapping e_i.                *)
C13_InjectedShapeAndOrder ==
  (IsTemplateCall /\ ~call.threw /\ ~call.transformThrew) =>
    LET statements == files[call.host].statements
        renderBlock == Transformed.produced
    IN /\ IsInjected(env.fileName, statements)
       /\ Len(RenderBody(statements)) = Len(renderBlock)
       /\ \A i \in 1..Len(renderBlock) :
            /\ RenderBody(statements)[i].kind = "ExpressionStatement"
            /\ RenderBody(statements)[i].expr = <<renderBlock[i]>>

\* two expressions, at offsets 10 and 11 of the template text, were injected
\* into an object that already held an earlier injection's three statements
C13_Witness ==
  /\ IsTemplateCall /\ call.op = "update" /\ call.same
  /\ ~call.threw /\ ~call.transformThrew
  /\ call.snapshot.tpl = <<"x", "x">>
  /\ Len(RenderBody(files[call.host].statements)) = 2
  /\ RenderBody(files[call.host].statements)[1].expr[1].pos = 10
  /\ RenderBody(files[call.host].statements)[2].expr[1].pos = 11

(* C14: when a script has no top-level default export of an object        *)
(* literal, the rewriter changes nothing (the statement list keeps its     *)
(* length, order and ranges, and no bridge import is inserted), and the    *)
(* document is marked processed all the same.                              *)
C14_RewriteNoOp ==
  (/\ call.op # "none" /\ ~call.same
   /\ isVue(env.fileName) /\ ~isTSLike(call.usedKind)
   /\ exportDefaultObject(Original) = 0) =>
    /\ files[call.result].statements = Original
    /\ BridgeImports(files[call.result].statements) = 0
    /\ rewrites[call.result] = 1
    /\ call.result \in modificationTracker

\* `import ...; export default foo` went through the rewriter
C14_Witness ==
  /\ call.op # "none" /\ ~call.same
  /\ isVue(env.fileName) /\ ~isTSLike(call.usedKind)
  /\ call.snapshot.script = <<"imp", "expId">>
  /\ Len(files[call.result].statements) = 2
  /\ rewrites[call.result] = 1
  /\ call.result \in modificationTracker

(* C15: when the rewriter finds a default export of an object literal, the *)
(* bridge import becomes the first statement, with range (0, 0) on the     *)
(* import, its clause and its module literal; the statements that were     *)
(* there follow in their order with their ranges, so the count grows by    *)
(* one, and the import's range overlaps none of theirs.                    *)
C15_BridgeImportPlacement ==
  (RewriterRan /\ exportDefaultObject(Original) # 0) =>
    LET statements == files[call.result].statements
        inserted == statements[1]
    IN /\ Len(statements) = Len(Original) + 1
       /\ IsBridgeImport(inserted)
       /\ inserted.module[1].text = BridgeModule
       /\ inserted.pos = 0 /\ inserted.end = 0
       /\ inserted.clause[1].pos = 0 /\ inserted.clause[1].end = 0
       /\ inserted.module[1].pos = 0 /\ inserted.module[1].end = 0
       /\ \A i \in 1..Len(Original) :
            /\ statements[i + 1].kind = Original[i].kind
            /\ statements[i + 1].pos = Original[i].pos
            /\ statements[i + 1].end = Original[i].end
            /\ i # exportDefaultObject(Original) => statements[i + 1] = Original[i]
            /\ ~(inserted.pos < Original[i].end /\ Original[i].pos < inserted.end)

\* `import ...; export default {}` was rewritten: the bridge import stands
\* before the script's own import, whose range starts at 0 as well
C15_Witness ==
  /\ RewriterRan
  /\ call.snapshot.script = <<"imp", "expObj">>
  /\ Len(files[call.result].statements) = 3
  /\ IsBridgeImport(files[call.result].statements[1])
  /\ files[call.result].statements[2].kind = "ImportDeclaration"
  /\ files[call.result].statements[2].pos = 0
  /\ files[call.result].statements[2].end = 9

(* C16: a create or update of a file that is neither a virtual template   *)
(* file nor a .vue file returns the host's own result with its statement   *)
(* list untouched, does not mark it processed and leaves the position-map  *)
(* table as it was; no create or update of a file that is not a virtual    *)
(* template file ever writes the position-map table.                       *)
C16_PassThroughFrame ==
  (call.op # "none" /\ ~isVirtualVueTemplateFile(env.fileName)) =>
    /\ DOMAIN templateSourceMap = {}
    /\ ~isVue(env.fileName) =>
         /\ ~call.threw
         /\ call.result = call.host
         /\ call.result = current
         /\ call.same => call.result = call.target
         /\ ~call.same => files[call.result].statements = Original
         /\ \E w \in LifecycleScripts : files[call.result].statements = HostParse(w)
         /\ rewrites[call.result] = 0
         /\ call.result \notin modificationTracker

\* b.ts, opened as JavaScript, was updated and the host returned the object
\* it was given: its `export default {}` is still not wrapped
C16_Witness ==
  /\ call.op = "update" /\ call.same
  /\ ~isVue(env.fileName) /\ ~isVirtualVueTemplateFile(env.fileName)
  /\ env.scriptKind = "JS"
  /\ Len(files[call.result].statements) = 1
  /\ files[call.result].statements[1].kind = "ExportAssignment"
  /\ files[call.result].statements[1].expr[1].kind = "ObjectLiteralExpression"

====
